---- MODULE Spec2Model ----
(***************************************************************************)
(* Submission pipeline of the grading backend: the stored student document *)
(* (its assignments array of attempts), the handlePdfUpload run with each  *)
(* of its awaits as one step, and the request handlers that write the same *)
(* attempts (startGrading, updateGrades, updateStudentAssignment,          *)
(* retryGrading, debugUpdateSolution).                                     *)
(*                                                                         *)
(* student.save() is Mongoose's save: it validates the document against    *)
(* the schema (the status enum), sends only the paths the handler modified *)
(* and guards array writes with the document version __v: a positional     *)
(* write (assignments.i.status) requires the version that was loaded, a    *)
(* write of a whole array (assignments.i.responses = [...]) requires it    *)
(* and increments it, a push increments it without requiring it.  The      *)
(* version is a counter that only grows, so "the stored version differs    *)
(* from the one the run loaded" is kept as the flag run.stale, set by      *)
(* every write of another handler that increments the version.             *)
(*                                                                         *)
(* new Date() is kept as the one value "date": a submissionDate is either  *)
(* absent or a date.  A local of the run that is not read again (urls      *)
(* after the cropping request, finalResponses and questionsToGrade after   *)
(* the merge) goes back to its initial value.                              *)
(*                                                                         *)
(* The sub-schema of the response entries that handlePdfUpload writes      *)
(* (question_id, image_url, ...) is not among the sources; entries are     *)
(* stored as the handlers build them.                                      *)
(*                                                                         *)
(* Spec is one run among the request handlers; EditSpec adds               *)
(* updateAssignment, which replaces an assignment's questions; ConcSpec is *)
(* two runs of handlePdfUpload interleaved at their awaits; HandlerSpec is *)
(* the request handlers without a run; IssueSpec is startGrading,          *)
(* updateStudentAssignment and createAssignment with the load and the save *)
(* of each as separate steps; MarginSpec is marginCropImages on a batch of *)
(* files, each file's closed binary image a matrix of 0 and 255.           *)
(***************************************************************************)
EXTENDS Integers, Sequences, FiniteSets, TLC

(* ------------------------------ bounds -------------------------------- *)
MaxPages == 1      \* pages the renderer reports: 0..MaxPages
MaxUploads == 2    \* length of the uploads list of the cropping service
MaxResults == 2    \* length of the results list of the grading service
MaxW == 5          \* width in pixels of an uploaded image: 1..MaxW
MaxH == 1          \* height in pixels of an uploaded image: 1..MaxH
MaxFiles == 2      \* files in one call of marginCropImages: 0..MaxFiles
MaxMag == 1        \* Sobel maximum of an image that has an edge
MaxReqs == 3       \* requests to the short handlers started in a behaviour

(* ------------------------------ values -------------------------------- *)
NoVal == "none"                         \* undefined / field absent
Date == "date"                          \* a value of new Date()
StudentId == "s1"                       \* the stored student
ReqStudents == {"s1", "s9"}             \* ids a request may carry
ReqAssignments == {"a1", "a9"}          \* a9 names no Assignment document
OracleQuestions == {"q1", "q2"}         \* ids the services may answer with
OracleMarks == {"m1"}


(* Question collection: rubric text of a question *)
Rubric(q) ==
  IF q = "q1" THEN "r1" ELSE IF q = "q2" THEN "r2"
  ELSE IF q = "q3" THEN "r3" ELSE ""

(* process.env.FAST_API_URL is set in the deployment *)
FastApiUrlDefined == TRUE

(* enum of studentAssignmentSchema.status *)
StatusEnum == {"pending", "processing", "graded", "failed"}

(* validStatuses accepted by updateGrades and updateStudentAssignment *)
validStatuses ==
  {"pending", "submitted", "processing", "completed", "graded", "failed"}

(* status values a request body may carry; NoVal: no status in the body *)
ReqStatuses == validStatuses \cup {NoVal, "bogus"}

VARIABLES
  db,         \* the student document: [assignments]
  run,        \* the handlePdfUpload run that is executing
  other,      \* a second handlePdfUpload run, waiting at one of its awaits
  questions,  \* Assignment collection: assignment id -> its question ids
  margin,     \* marginCropImages: the file being cropped and its result
  reqs        \* short handlers between their load and their save

vars == <<db, run, other, questions, margin, reqs>>

(* Assignment.findById(a) and the question list of the document found *)
AssignmentExists(a) == a \in DOMAIN questions

AssignmentQuestions(a) == IF AssignmentExists(a) THEN questions[a] ELSE << >>

(* ------------------------------ helpers ------------------------------- *)
RECURSIVE FindFrom(_, _, _)
FindFrom(arr, aid, i) ==
  IF i > Len(arr) THEN 0
  ELSE IF arr[i].assignment = aid THEN i ELSE FindFrom(arr, aid, i + 1)

(* student.assignments.findIndex(a => a.assignment.toString() === id);    *)
(* 0 stands for -1 / undefined, positions count from 1                     *)
FindIndex(arr, aid) == FindFrom(arr, aid, 1)

(* {question: q._id, solution: ""} for each question of the assignment *)
EmptyResponse(q) ==
  [question |-> q, solution |-> "", question_id |-> NoVal,
   image_url |-> NoVal, total_awarded |-> NoVal]

EmptyResponses(a) ==
  [i \in 1..Len(AssignmentQuestions(a)) |->
     EmptyResponse(AssignmentQuestions(a)[i])]

(* schema validation run by save(): every attempt's status is in the enum *)
ValidatesNothing(assignments) == TRUE

Validates(assignments) ==
  \A i \in 1..Len(assignments) : assignments[i].status \in StatusEnum

(* responses.findIndex(r => r.question && r.question.toString() === qid)  *)
RECURSIVE FindResponseFrom(_, _, _)
FindResponseFrom(rs, qid, i) ==
  IF i > Len(rs) THEN 0
  ELSE IF rs[i].question # NoVal /\ rs[i].question = qid THEN i
  ELSE FindResponseFrom(rs, qid, i + 1)

FindResponse(rs, qid) == FindResponseFrom(rs, qid, 1)

(* responses.findIndex(r => r.question.toString() === qid) throws a       *)
(* TypeError when it reaches an entry without question before a match     *)
RECURSIVE ThrowsFrom(_, _, _)
ThrowsFrom(rs, qid, i) ==
  IF i > Len(rs) THEN FALSE
  ELSE IF rs[i].question = NoVal THEN TRUE
  ELSE IF rs[i].question = qid THEN FALSE
  ELSE ThrowsFrom(rs, qid, i + 1)

FindResponseThrows(rs, qid) == ThrowsFrom(rs, qid, 1)

(* the solution of the first item written to every entry *)
ApplySolutionsToAll(rs, items, k) ==
  [j \in 1..Len(rs) |->
     [rs[j] EXCEPT !.solution = IF Len(items) > 0 THEN items[1].solution ELSE @]]

(* solutionsData.forEach of updateGrades: items without questionId and    *)
(* items whose question is not in responses are skipped                    *)
RECURSIVE ApplySolutions(_, _, _)
ApplySolutions(rs, items, k) ==
  IF k > Len(items) THEN rs
  ELSE LET it == items[k]
           j == FindResponse(rs, it.questionId)
       IN IF it.questionId = NoVal \/ j = 0
          THEN ApplySolutions(rs, items, k + 1)
          ELSE ApplySolutions([rs EXCEPT ![j].solution = it.solution],
                              items, k + 1)

(* feedback.forEach of updateStudentAssignment throws when a lookup does *)
RECURSIVE FeedbackThrows(_, _, _)
FeedbackThrows(rs, items, k) ==
  IF k > Len(items) THEN FALSE
  ELSE IF items[k].questionId # NoVal
          /\ FindResponseThrows(rs, items[k].questionId) THEN TRUE
  ELSE FeedbackThrows(rs, items, k + 1)

(* request bodies: lists of {questionId, solution} *)
ReqItem == [questionId : {NoVal, "q1", "q9"}, solution : {"x"}]
ReqItems == {<< >>} \cup {<<it>> : it \in ReqItem}

IdleRun ==
  [pc |-> "idle", sid |-> NoVal, aid |-> NoVal, pages |-> 0, idx |-> 0,
   stale |-> FALSE, net |-> 0, saved |-> FALSE, failed |-> NoVal,
   finalResponses |-> << >>, questionsToGrade |-> << >>,
   combinedResponses |-> << >>]

(* student.assignments.push({assignment, status: "pending", responses})   *)
(* of createAssignment: the attempt as issued to the student               *)
IssuedAttempt(a) ==
  [assignment |-> a, status |-> "pending", submissionDate |-> NoVal,
   responses |-> EmptyResponses(a)]

(* the assignments created so far and their questions *)
IssuedQuestions == [a \in {"a1", "a2"} |->
                      IF a = "a1" THEN <<"q1", "q2">> ELSE <<"q3">>]

(* marginCropImages has not been called *)
IdleMargin ==
  [pc |-> "idle", k |-> 0, maxVal |-> NoVal, divisor |-> NoVal,
   closed |-> << >>, marginX |-> NoVal, marginSum |-> NoVal, recorded |-> 0]

(* a request being served by a short handler: the handler, the assignment *)
(* named, the assignmentIndex found in the document as loaded (0: none),   *)
(* the status of the body, and whether the stored __v has moved on since   *)
IdleReq ==
  [op |-> "idle", aid |-> NoVal, idx |-> 0, status |-> NoVal, stale |-> FALSE]

(* two requests can be in service at a time *)
Slots == {1, 2}

IdleReqs == [started |-> 0, inv |-> [s \in Slots |-> IdleReq]]

(* the student before and after assignment a1 was issued *)
Init ==
  /\ questions = IssuedQuestions
  /\ db \in {[assignments |-> << >>],
             [assignments |-> <<IssuedAttempt("a1")>>]}
  /\ run = IdleRun
  /\ other = IdleRun
  /\ margin = IdleMargin
  /\ reqs = IdleReqs

(* a write that increments __v makes the version a run loaded stale *)
Loaded == {"checkpoint", "region", "assignment", "grade", "final"}
Bumped == IF run.pc \in Loaded THEN [run EXCEPT !.stale = TRUE] ELSE run

(* ------------------------- short request handlers --------------------- *)
(* exports.startGrading *)
StartGrading(sid, aid, hasData) ==
  /\ hasData
  /\ AssignmentExists(aid)
  /\ sid = StudentId
  /\ LET i == FindIndex(db.assignments, aid)
         arr == IF i = 0
                THEN Append(db.assignments,
                       [assignment |-> aid, status |-> "processing",
                        submissionDate |-> Date,
                        responses |-> EmptyResponses(aid)])
                ELSE [db.assignments EXCEPT
                        ![i].status = "processing",
                        ![i].submissionDate = Date]
     IN /\ Validates(arr)
        /\ db' = [db EXCEPT !.assignments = arr]
        /\ run' = IF i = 0 THEN Bumped ELSE run

(* exports.updateGrades *)
UpdateGrades(sid, aid, status, items) ==
  /\ sid = StudentId
  /\ LET i == FindIndex(db.assignments, aid)
         st == IF status # NoVal THEN status ELSE "completed"
         arr == [db.assignments EXCEPT
                   ![i].status = st,
                   ![i].responses =
                      ApplySolutions(db.assignments[i].responses, items, 1)]
     IN /\ i # 0
        /\ status # NoVal => status \in validStatuses
        /\ Validates(arr)
        /\ db' = [db EXCEPT !.assignments = arr]
  /\ UNCHANGED run

(* exports.updateStudentAssignment *)
UpdateStudentAssignment(sid, aid, status, items) ==
  /\ sid = StudentId
  /\ LET i == FindIndex(db.assignments, aid)
     IN IF i = 0
        THEN LET arr == Append(db.assignments,
                          [assignment |-> aid, status |-> status,
                           submissionDate |-> NoVal,
                           responses |-> EmptyResponses(aid)])
             IN /\ status # NoVal
                /\ status \in validStatuses
                /\ AssignmentExists(aid)
                /\ Validates(arr)
                /\ db' = [db EXCEPT !.assignments = arr]
                /\ run' = Bumped
        ELSE LET rs == db.assignments[i].responses
                 arr == [db.assignments EXCEPT
                           ![i].status =
                              IF status # NoVal THEN status ELSE @,
                           ![i].responses = ApplySolutions(rs, items, 1)]
             IN /\ status # NoVal => status \in validStatuses
                /\ ~FeedbackThrows(rs, items, 1)
                /\ Validates(arr)
                /\ db' = [db EXCEPT !.assignments = arr]
                /\ UNCHANGED run

(* exports.retryGrading *)
RetryGrading(sid, aid) ==
  /\ sid = StudentId
  /\ LET i == FindIndex(db.assignments, aid)
         arr == [db.assignments EXCEPT ![i].status = "processing"]
     IN /\ i # 0
        /\ Validates(arr)
        /\ db' = [db EXCEPT !.assignments = arr]
  /\ UNCHANGED run

(* exports.debugUpdateSolution; questionIndex counts from 0 in the request *)
DebugUpdateSolution(sid, aid, questionIndex, solution) ==
  /\ solution # ""
  /\ sid = StudentId
  /\ LET i == FindIndex(db.assignments, aid)
         arr == [db.assignments EXCEPT
                   ![i].responses[questionIndex + 1].solution = solution,
                   ![i].status = "graded"]
     IN /\ i # 0
        /\ questionIndex >= 0
        /\ questionIndex < Len(db.assignments[i].responses)
        /\ Validates(arr)
        /\ db' = [db EXCEPT !.assignments = arr]
  /\ UNCHANGED run

(* Question.insertMany(questionDocs): the documents of an edit get new ids *)
NewQuestionIds == <<"q7">>

(* the attempt of every student issued again for the new questions *)
UpdateAssignmentReissue(aid, hasQuestions) ==
  /\ hasQuestions
  /\ AssignmentExists(aid)
  /\ questions' = [questions EXCEPT ![aid] = NewQuestionIds]
  /\ LET i == FindIndex(db.assignments, aid)
         arr == [db.assignments EXCEPT
                   ![i] = [assignment |-> aid, status |-> @.status,
                           submissionDate |-> NoVal,
                           responses |->
                             [k \in 1..Len(NewQuestionIds) |->
                                EmptyResponse(NewQuestionIds[k])]]]
     IN IF i # 0 /\ Validates(arr)
        THEN /\ db' = [db EXCEPT !.assignments = arr]
             /\ run' = Bumped
        ELSE UNCHANGED <<db, run>>

(* exports.updateAssignment: the assignment gets the new questions, then   *)
(* every student holding it gets empty responses for them; status and      *)
(* submissionDate are read and left as they are                            *)
UpdateAssignment(aid, hasQuestions) ==
  /\ hasQuestions
  /\ AssignmentExists(aid)
  /\ questions' = [questions EXCEPT ![aid] = NewQuestionIds]
  /\ LET i == FindIndex(db.assignments, aid)
         emptyResponses == [k \in 1..Len(NewQuestionIds) |->
                              EmptyResponse(NewQuestionIds[k])]
         arr == [db.assignments EXCEPT ![i].responses = emptyResponses]
     IN IF i # 0 /\ Validates(arr)
        THEN /\ db' = [db EXCEPT !.assignments = arr]
             /\ run' = Bumped
        ELSE UNCHANGED <<db, run>>

(* ------------------------ handlePdfUpload run -------------------------- *)
(* oracle answers: {uploads: [{question_id, image_url}]}; every cropped   *)
(* region is a new stored image, the k-th one at the url "u<k>"            *)
RegionUrl(k) == "u" \o ToString(k)

UploadLists ==
  UNION {{[k \in 1..n |-> [question_id |-> qs[k], image_url |-> RegionUrl(k)]]
            : qs \in [1..n -> OracleQuestions]} : n \in 0..MaxUploads}

(* oracle answers: {results: [{question_id, total_awarded, ...}]} *)
Result == [question_id : OracleQuestions, total_awarded : OracleMarks]
ResultLists ==
  UNION {[1..n -> Result] : n \in 0..MaxResults}

(* uploads.map(u => ({question_id, image_url})) *)
FinalResponses(uploads) ==
  [k \in 1..Len(uploads) |->
     [question_id |-> uploads[k].question_id,
      image_url |-> uploads[k].image_url]]

(* detailedAssignment.questions.find(x => x._id.toString() === qid) *)
HasQuestion(aid, qid) ==
  \E k \in 1..Len(AssignmentQuestions(aid)) : AssignmentQuestions(aid)[k] = qid

(* one request entry per question of the assignment *)
QuestionsOfAssignment(aid, fr) ==
  [k \in 1..Len(AssignmentQuestions(aid)) |->
     [question_id |-> AssignmentQuestions(aid)[k],
      image_url |-> NoVal,
      rubric |-> Rubric(AssignmentQuestions(aid)[k])]]

(* finalResponses.map(... rubric: q ? q.rubric : "") *)
QuestionsToGrade(aid, fr) ==
  [k \in 1..Len(fr) |->
     [question_id |-> fr[k].question_id,
      image_url |-> fr[k].image_url,
      rubric |-> IF HasQuestion(aid, fr[k].question_id)
                 THEN Rubric(fr[k].question_id) ELSE ""]]

(* finalResponses.find(r => r.question_id === qid): first match, 0 if none *)
RECURSIVE FindOrigFrom(_, _, _)
FindOrigFrom(fr, qid, i) ==
  IF i > Len(fr) THEN 0
  ELSE IF fr[i].question_id = qid THEN i ELSE FindOrigFrom(fr, qid, i + 1)

(* the first entry of the region map stands in for a missing one *)
FindOrigOrFirst(fr, results, k) ==
  IF FindOrigFrom(fr, results[k].question_id, 1) = 0 /\ Len(fr) > 0
  THEN 1 ELSE FindOrigFrom(fr, results[k].question_id, 1)

FindOrigAt(fr, results, k) == IF k <= Len(fr) THEN k ELSE 0

FindOrig(fr, results, k) == FindOrigFrom(fr, results[k].question_id, 1)

(* orig.image_url of an undefined orig is a TypeError *)
CombineThrows(fr, results) ==
  \E k \in 1..Len(results) : FindOrig(fr, results, k) = 0

(* gradedResults.map(gr => ({question_id, image_url: orig.image_url, ...})) *)
CombinedResponses(fr, results) ==
  [k \in 1..Len(results) |->
     [question |-> NoVal, solution |-> NoVal,
      question_id |-> results[k].question_id,
      image_url |-> fr[FindOrig(fr, results, k)].image_url,
      total_awarded |-> results[k].total_awarded]]

(* assignmentEntry.responses = combinedResponses; status = "graded"; save *)
FinalWriteStatusOnly(arr, i, responses) ==
  [arr EXCEPT ![i].status = "graded"]

(* the new entries pushed after the stored ones *)
FinalWritePush(arr, i, responses) ==
  [arr EXCEPT ![i].responses = @ \o responses, ![i].status = "graded"]

FinalWrite(arr, i, responses) ==
  [arr EXCEPT ![i].responses = responses, ![i].status = "graded"]

(* a thrown error ends the run: its locals are gone, the catch rethrows *)
Thrown(stage, calls) ==
  [IdleRun EXCEPT !.pc = "thrown", !.failed = stage, !.sid = run.sid,
                  !.aid = run.aid, !.idx = run.idx, !.saved = run.saved,
                  !.net = run.net + calls]

Throw(stage) == run' = Thrown(stage, 0)

(* exports.uploadSubmission: a request with a file starts a run *)
UploadSubmission(sid, aid, hasFile) ==
  /\ run.pc = "idle"
  /\ hasFile
  /\ run' = [run EXCEPT !.pc = "upload", !.sid = sid, !.aid = aid]
  /\ UNCHANGED db

(* cloudinary.uploader.upload and the page urls *)
RenderPages(ok, pages) ==
  /\ run.pc = "upload"
  /\ IF ok
     THEN run' = [run EXCEPT !.pc = "find", !.pages = pages,
                             !.net = run.net + 1]
     ELSE run' = Thrown("render", 1)
  /\ UNCHANGED db

(* Student.findById and the lookup of the assignment entry *)
FindStudent ==
  /\ run.pc = "find"
  /\ IF run.sid # StudentId \/ FindIndex(db.assignments, run.aid) = 0
     THEN Throw("notfound")
     ELSE run' = [run EXCEPT !.pc = "checkpoint",
                             !.idx = FindIndex(db.assignments, run.aid),
                             !.stale = FALSE]
  /\ UNCHANGED db

(* the page urls stored as responses together with the date *)
SaveSubmissionDateAndUrls(storeOk) ==
  /\ run.pc = "checkpoint"
  /\ IF storeOk /\ ~run.stale /\ Validates(db.assignments)
     THEN /\ db' = [db EXCEPT
                      !.assignments[run.idx].submissionDate = Date,
                      !.assignments[run.idx].responses =
                         [k \in 1..run.pages |->
                            [question |-> NoVal, solution |-> NoVal,
                             question_id |-> NoVal,
                             image_url |-> RegionUrl(k),
                             total_awarded |-> NoVal]]]
          /\ run' = [run EXCEPT !.pc = "region", !.saved = TRUE]
     ELSE /\ Throw("persist")
          /\ UNCHANGED db

(* assignmentEntry.submissionDate = new Date(); await student.save() *)
SaveSubmissionDate(storeOk) ==
  /\ run.pc = "checkpoint"
  /\ IF storeOk /\ ~run.stale /\ Validates(db.assignments)
     THEN /\ db' = [db EXCEPT
                      !.assignments[run.idx].submissionDate = Date]
          /\ run' = [run EXCEPT !.pc = "region", !.saved = TRUE]
     ELSE /\ Throw("persist")
          /\ UNCHANGED db

(* the cropping request sent again, once, after a failed one *)
ExtractRegionsRetry(ok, uploads) ==
  /\ run.pc = "region"
  /\ IF ok
     THEN run' = [run EXCEPT !.pc = "assignment", !.net = run.net + 1,
                             !.pages = 0,
                             !.finalResponses = FinalResponses(uploads)]
     ELSE IF run.net < 2
     THEN run' = [run EXCEPT !.net = run.net + 1]
     ELSE run' = Thrown("region", 1)
  /\ UNCHANGED db

(* axios.post(fastApiUrl, {urls}) *)
ExtractRegions(ok, uploads) ==
  /\ run.pc = "region"
  /\ IF ~FastApiUrlDefined
     THEN Throw("config")
     ELSE IF ok
     THEN run' = [run EXCEPT !.pc = "assignment", !.net = run.net + 1,
                             !.pages = 0,
                             !.finalResponses = FinalResponses(uploads)]
     ELSE run' = Thrown("region", 1)
  /\ UNCHANGED db

(* Assignment.findById(assignmentId).populate("questions") *)
LoadAssignment ==
  /\ run.pc = "assignment"
  /\ IF ~AssignmentExists(run.aid)
     THEN Throw("notfound")
     ELSE run' = [run EXCEPT
                    !.pc = "grade",
                    !.questionsToGrade =
                       QuestionsToGrade(run.aid, run.finalResponses)]
  /\ UNCHANGED db

(* axios.post(gradeUrl, {questions}) and the merge of its results *)
GradeQuestions(ok, results) ==
  /\ run.pc = "grade"
  /\ IF ~ok
     THEN run' = Thrown("grade", 1)
     ELSE IF CombineThrows(run.finalResponses, results)
     THEN run' = Thrown("merge", 1)
     ELSE run' = [run EXCEPT
                    !.pc = "final", !.net = run.net + 1,
                    !.finalResponses = << >>, !.questionsToGrade = << >>,
                    !.combinedResponses =
                       CombinedResponses(run.finalResponses, results)]
  /\ UNCHANGED db

(* the last await student.save() of the run *)
SaveGraded(storeOk) ==
  /\ run.pc = "final"
  /\ LET arr == FinalWrite(db.assignments, run.idx, run.combinedResponses)
     IN IF storeOk /\ ~run.stale /\ Validates(arr)
        THEN /\ db' = [db EXCEPT !.assignments = arr]
             /\ run' = [run EXCEPT !.pc = "done"]
        ELSE /\ Throw("persist")
             /\ UNCHANGED db

(* uploadSubmission answers 200 or 500 *)
Respond ==
  /\ run.pc \in {"done", "thrown"}
  /\ run' = IdleRun
  /\ UNCHANGED db

Next ==
  \/ /\ \E sid \in ReqStudents, aid \in ReqAssignments, d \in BOOLEAN :
          StartGrading(sid, aid, d)
     /\ UNCHANGED <<other, questions, margin, reqs>>
  \/ /\ \E sid \in ReqStudents, aid \in ReqAssignments,
           st \in ReqStatuses, items \in ReqItems :
          UpdateGrades(sid, aid, st, items)
     /\ UNCHANGED <<other, questions, margin, reqs>>
  \/ /\ \E sid \in ReqStudents, aid \in ReqAssignments,
           st \in ReqStatuses, items \in ReqItems :
          UpdateStudentAssignment(sid, aid, st, items)
     /\ UNCHANGED <<other, questions, margin, reqs>>
  \/ /\ \E sid \in ReqStudents, aid \in ReqAssignments : RetryGrading(sid, aid)
     /\ UNCHANGED <<other, questions, margin, reqs>>
  \/ /\ \E sid \in ReqStudents, aid \in ReqAssignments,
           qi \in {0, 5}, sol \in {"", "x"} :
          DebugUpdateSolution(sid, aid, qi, sol)
     /\ UNCHANGED <<other, questions, margin, reqs>>
  \/ /\ \E sid \in ReqStudents, aid \in ReqAssignments, f \in BOOLEAN :
          UploadSubmission(sid, aid, f)
     /\ UNCHANGED <<other, questions, margin, reqs>>
  \/ /\ \E ok \in BOOLEAN, pages \in 0..MaxPages : RenderPages(ok, pages)
     /\ UNCHANGED <<other, questions, margin, reqs>>
  \/ /\ FindStudent
     /\ UNCHANGED <<other, questions, margin, reqs>>
  \/ /\ \E storeOk \in BOOLEAN : SaveSubmissionDate(storeOk)
     /\ UNCHANGED <<other, questions, margin, reqs>>
  \/ /\ \E ok \in BOOLEAN, uploads \in UploadLists : ExtractRegions(ok, uploads)
     /\ UNCHANGED <<other, questions, margin, reqs>>
  \/ /\ LoadAssignment
     /\ UNCHANGED <<other, questions, margin, reqs>>
  \/ /\ \E ok \in BOOLEAN, results \in ResultLists : GradeQuestions(ok, results)
     /\ UNCHANGED <<other, questions, margin, reqs>>
  \/ /\ \E storeOk \in BOOLEAN : SaveGraded(storeOk)
     /\ UNCHANGED <<other, questions, margin, reqs>>
  \/ /\ Respond
     /\ UNCHANGED <<other, questions, margin, reqs>>

Spec == Init /\ [][Next]_vars

(* the same handlers together with the teacher's edit of an assignment *)
EditNext ==
  \/ Next
  \/ /\ \E aid \in ReqAssignments, q \in BOOLEAN : UpdateAssignment(aid, q)
     /\ UNCHANGED <<other, margin, reqs>>

EditSpec == Init /\ [][EditNext]_vars

(* ------------------- the short handlers on their own ------------------- *)
(* The requests to startGrading, updateGrades, updateStudentAssignment,    *)
(* retryGrading and debugUpdateSolution while no run is in progress, for   *)
(* either assignment of the student or an unknown one.                     *)
HandlerAssignments == {"a1", "a2", "a9"}

(* the attempt of a1 as a run leaves it: one region, for q1, graded *)
GradedByRun ==
  LET fr == <<[question_id |-> "q1", image_url |-> RegionUrl(1)]>>
      results == <<[question_id |-> "q1", total_awarded |-> "m1"]>>
  IN FinalWrite(<<[IssuedAttempt("a1") EXCEPT !.submissionDate = Date]>>, 1,
                CombinedResponses(fr, results))[1]

HandlerInit ==
  /\ questions = IssuedQuestions
  /\ db \in {[assignments |-> << >>],
             [assignments |-> <<IssuedAttempt("a1")>>],
             [assignments |-> <<GradedByRun>>]}
  /\ run = IdleRun
  /\ other = IdleRun
  /\ margin = IdleMargin
  /\ reqs = IdleReqs

HandlerNext ==
  \/ /\ \E sid \in ReqStudents, aid \in HandlerAssignments, d \in BOOLEAN :
          StartGrading(sid, aid, d)
     /\ UNCHANGED <<other, questions, margin, reqs>>
  \/ /\ \E sid \in ReqStudents, aid \in HandlerAssignments,
           st \in ReqStatuses, items \in ReqItems :
          UpdateGrades(sid, aid, st, items)
     /\ UNCHANGED <<other, questions, margin, reqs>>
  \/ /\ \E sid \in ReqStudents, aid \in HandlerAssignments,
           st \in ReqStatuses, items \in ReqItems :
          UpdateStudentAssignment(sid, aid, st, items)
     /\ UNCHANGED <<other, questions, margin, reqs>>
  \/ /\ \E sid \in ReqStudents, aid \in HandlerAssignments :
          RetryGrading(sid, aid)
     /\ UNCHANGED <<other, questions, margin, reqs>>
  \/ /\ \E sid \in ReqStudents, aid \in HandlerAssignments,
           qi \in {0, 5}, sol \in {"", "x"} :
          DebugUpdateSolution(sid, aid, qi, sol)
     /\ UNCHANGED <<other, questions, margin, reqs>>

HandlerSpec == HandlerInit /\ [][HandlerNext]_vars

(* --------------------- two runs of handlePdfUpload --------------------- *)
(* Two requests are served by two invocations of the async handler; each   *)
(* proceeds from one await to the next, in any interleaving.  run is the   *)
(* invocation that takes the next step, other the one that waits.          *)
NotOvertaken(r) == r

(* the accepted save of a whole array increments __v: an invocation that   *)
(* holds the document as loaded before now holds an outdated version       *)
Overtaken(r) == IF r.pc \in Loaded THEN [r EXCEPT !.stale = TRUE] ELSE r

ConcAssignments == {"a1", "a2"}
ConcUploads == {u \in UploadLists : Len(u) = 1}
ConcResults == {r \in ResultLists : Len(r) = 1}

(* both assignments were issued to the student *)
ConcInit ==
  /\ questions = IssuedQuestions
  /\ db = [assignments |-> <<IssuedAttempt("a1"), IssuedAttempt("a2")>>]
  /\ run = IdleRun
  /\ other = IdleRun
  /\ margin = IdleMargin
  /\ reqs = IdleReqs

(* the event loop resumes the other invocation *)
Switch ==
  /\ run # other
  /\ run' = other
  /\ other' = run
  /\ UNCHANGED <<db, questions, margin, reqs>>

ConcNext ==
  \/ /\ \E aid \in ConcAssignments : UploadSubmission(StudentId, aid, TRUE)
     /\ UNCHANGED <<other, questions, margin, reqs>>
  \/ /\ \E ok \in BOOLEAN : RenderPages(ok, MaxPages)
     /\ UNCHANGED <<other, questions, margin, reqs>>
  \/ /\ FindStudent
     /\ UNCHANGED <<other, questions, margin, reqs>>
  \/ /\ SaveSubmissionDate(TRUE)
     /\ UNCHANGED <<other, questions, margin, reqs>>
  \/ /\ \E ok \in BOOLEAN, uploads \in ConcUploads : ExtractRegions(ok, uploads)
     /\ UNCHANGED <<other, questions, margin, reqs>>
  \/ /\ LoadAssignment
     /\ UNCHANGED <<other, questions, margin, reqs>>
  \/ /\ \E ok \in BOOLEAN, results \in ConcResults : GradeQuestions(ok, results)
     /\ UNCHANGED <<other, questions, margin, reqs>>
  \/ /\ SaveGraded(TRUE)
     /\ other' = IF run'.pc = "done" THEN Overtaken(other) ELSE other
     /\ UNCHANGED <<questions, margin, reqs>>
  \/ /\ Respond
     /\ UNCHANGED <<other, questions, margin, reqs>>
  \/ Switch

ConcSpec == ConcInit /\ [][ConcNext]_vars

(* --------------- short handlers, load and save apart ------------------- *)
(* A handler that awaits Student.findById and later student.save() can be  *)
(* overtaken between the two by another request.  What the save does to    *)
(* the stored document depends on what the handler changed: a push is sent *)
(* as $push with an increment of __v and no condition on it, so it is      *)
(* applied to the array as stored now; a write to assignments[i] is sent   *)
(* with the loaded __v as a condition and is rejected when __v has moved.  *)
NewAssignment == "a3"
NewAssignmentQuestions == <<"q4">>

(* assignment ids and bodies of the requests *)
IssueAssignments == {"a1", "a3"}
IssueStatuses == {NoVal, "graded", "completed"}

(* reqs after the request in slot s has been answered; an accepted push    *)
(* has incremented __v under the other request                             *)
Answered(s, pushed) ==
  [reqs EXCEPT !.inv =
     [t \in Slots |->
        IF t = s THEN IdleReq
        ELSE IF pushed /\ reqs.inv[t].op # "idle"
        THEN [reqs.inv[t] EXCEPT !.stale = TRUE]
        ELSE reqs.inv[t]]]

(* the request of slot s has loaded the student *)
LoadedReq(s, op, aid, status) ==
  [reqs EXCEPT !.started = @ + 1,
               !.inv[s] = [op |-> op, aid |-> aid,
                           idx |-> FindIndex(db.assignments, aid),
                           status |-> status, stale |-> FALSE]]

(* student.save() after student.assignments.push(entry) *)
SavePush(s, entry) ==
  IF Validates(Append(db.assignments, entry))
  THEN /\ db' = [db EXCEPT !.assignments = Append(@, entry)]
       /\ reqs' = Answered(s, TRUE)
  ELSE /\ UNCHANGED db
       /\ reqs' = Answered(s, FALSE)

(* student.save() after writes to assignments[idx]: arr is the array with  *)
(* those writes applied                                                    *)
SaveAt(s, arr) ==
  IF ~reqs.inv[s].stale /\ Validates(arr)
  THEN /\ db' = [db EXCEPT !.assignments = arr]
       /\ reqs' = Answered(s, FALSE)
  ELSE /\ UNCHANGED db
       /\ reqs' = Answered(s, FALSE)

(* exports.startGrading up to Student.findById *)
StartGradingLoad(s, aid) ==
  /\ reqs.started < MaxReqs
  /\ reqs.inv[s].op = "idle"
  /\ AssignmentExists(aid)
  /\ reqs' = LoadedReq(s, "startGrading", aid, "processing")
  /\ UNCHANGED <<db, run, other, questions, margin>>

(* exports.startGrading from the findIndex to the save *)
StartGradingSave(s) ==
  /\ reqs.inv[s].op = "startGrading"
  /\ LET c == reqs.inv[s]
     IN IF c.idx = 0
        THEN SavePush(s, [assignment |-> c.aid, status |-> "processing",
                          submissionDate |-> Date,
                          responses |-> EmptyResponses(c.aid)])
        ELSE SaveAt(s, [db.assignments EXCEPT
                          ![c.idx].status = "processing",
                          ![c.idx].submissionDate = Date])
  /\ UNCHANGED <<run, other, questions, margin>>

(* exports.updateStudentAssignment up to Student.findById and the checks   *)
(* of the body made for an assignment the student does not have            *)
UpdateStudentAssignmentLoad(s, aid, status) ==
  /\ reqs.started < MaxReqs
  /\ reqs.inv[s].op = "idle"
  /\ status # NoVal => status \in validStatuses
  /\ FindIndex(db.assignments, aid) = 0 =>
       (status # NoVal /\ AssignmentExists(aid))
  /\ reqs' = LoadedReq(s, "updateStudentAssignment", aid, status)
  /\ UNCHANGED <<db, run, other, questions, margin>>

(* exports.updateStudentAssignment from there to the save (no feedback) *)
UpdateStudentAssignmentSave(s) ==
  /\ reqs.inv[s].op = "updateStudentAssignment"
  /\ LET c == reqs.inv[s]
     IN IF c.idx = 0
        THEN SavePush(s, [assignment |-> c.aid, status |-> c.status,
                          submissionDate |-> NoVal,
                          responses |-> EmptyResponses(c.aid)])
        ELSE IF c.status = NoVal
        THEN /\ UNCHANGED db
             /\ reqs' = Answered(s, FALSE)
        ELSE SaveAt(s, [db.assignments EXCEPT ![c.idx].status = c.status])
  /\ UNCHANGED <<run, other, questions, margin>>

(* createAssignment: the Assignment document is created *)
CreateAssignmentDoc(s) ==
  /\ reqs.started < MaxReqs
  /\ reqs.inv[s].op = "idle"
  /\ ~AssignmentExists(NewAssignment)
  /\ questions' = [a \in DOMAIN questions \cup {NewAssignment} |->
                     IF a = NewAssignment THEN NewAssignmentQuestions
                     ELSE questions[a]]
  /\ reqs' = [reqs EXCEPT !.started = @ + 1,
                          !.inv[s] = [IdleReq EXCEPT !.op = "created",
                                                     !.aid = NewAssignment]]
  /\ UNCHANGED <<db, run, other, margin>>

(* createAssignment: Student.find({classes: classId}) *)
CreateAssignmentLoad(s) ==
  /\ reqs.inv[s].op = "created"
  /\ reqs' = [reqs EXCEPT
                !.inv[s] = [op |-> "createAssignment", aid |-> NewAssignment,
                            idx |-> FindIndex(db.assignments, NewAssignment),
                            status |-> "pending", stale |-> FALSE]]
  /\ UNCHANGED <<db, run, other, questions, margin>>

(* createAssignment: the push and save for a student without the entry *)
CreateAssignmentSave(s) ==
  /\ reqs.inv[s].op = "createAssignment"
  /\ IF reqs.inv[s].idx # 0
     THEN /\ UNCHANGED db
          /\ reqs' = Answered(s, FALSE)
     ELSE SavePush(s, IssuedAttempt(NewAssignment))
  /\ UNCHANGED <<run, other, questions, margin>>

IssueInit ==
  /\ questions = IssuedQuestions
  /\ db \in {[assignments |-> << >>],
             [assignments |-> <<IssuedAttempt("a1")>>]}
  /\ run = IdleRun
  /\ other = IdleRun
  /\ margin = IdleMargin
  /\ reqs = IdleReqs

IssueNext ==
  \/ \E s \in Slots, aid \in IssueAssignments : StartGradingLoad(s, aid)
  \/ \E s \in Slots : StartGradingSave(s)
  \/ \E s \in Slots, aid \in IssueAssignments, st \in IssueStatuses :
       UpdateStudentAssignmentLoad(s, aid, st)
  \/ \E s \in Slots : UpdateStudentAssignmentSave(s)
  \/ \E s \in Slots : CreateAssignmentDoc(s)
  \/ \E s \in Slots : CreateAssignmentLoad(s)
  \/ \E s \in Slots : CreateAssignmentSave(s)

IssueSpec == IssueInit /\ [][IssueNext]_vars

(* --------------------------- marginCropImages -------------------------- *)
(* The OpenCV steps up to the morphological closing (grayscale, blur,      *)
(* Sobel, rescaling, Otsu threshold, closing) are the library's; what they *)
(* hand to the column analysis is a binary image of the size of the        *)
(* decoded one, and that image is the input here.  A matrix is the         *)
(* sequence of its rows, rows and columns counted from 1.                  *)
White == 255

ClosedImages ==
  UNION {UNION {[1..h -> [1..w -> {0, White}]] : h \in 1..MaxH}
           : w \in 1..MaxW}

(* a file: the closed image of the decoded one; the empty matrix stands   *)
(* for a file that cv.imdecode gives no image for (!img || img.empty)      *)
Files == {<< >>} \cup ClosedImages

Rows(m) == Len(m)
Cols(m) == Len(m[1])

(* no pixel of the closed image is white *)
AllBlack(m) == \A y \in 1..Rows(m) : \A x \in 1..Cols(m) : m[y][x] = 0

(* absS.max() of the image a closed image comes from.  With maxVal 0 the   *)
(* scaled image is 0 everywhere, and so are the thresholded and the closed *)
(* one; with a positive maxVal the pixel of the maximum is scaled to 255,  *)
(* which the threshold and the closing keep white.                         *)
MaxVals(closed) == IF AllBlack(closed) THEN {0} ELSE {MaxMag}

(* absS.div(maxVal === 0 ? 1 : maxVal) *)
Divisor(maxVal) == IF maxVal = 0 THEN 1 ELSE maxVal

(* mat.getRegion(new cv.Rect(0, 0, width, h)) *)
GetRegion(m, width) == [y \in 1..Rows(m) |-> SubSeq(m[y], 1, width)]

(* for (y...) total += left.atRaw(y, x) *)
RECURSIVE ColTotal(_, _, _)
ColTotal(left, x, y) ==
  IF y > Rows(left) THEN 0 ELSE left[y][x] + ColTotal(left, x, y + 1)

ColSums(left) == [x \in 1..Cols(left) |-> ColTotal(left, x, 1)]

(* Math.max() of no arguments is -Infinity, below every column sum *)
MinusInfinity == -1

(* Math.max(...colSums) *)
RECURSIVE MathMaxFrom(_, _)
MathMaxFrom(s, i) ==
  IF i > Len(s) THEN MinusInfinity
  ELSE LET rest == MathMaxFrom(s, i + 1)
       IN IF s[i] > rest THEN s[i] ELSE rest

MathMax(s) == MathMaxFrom(s, 1)

(* the highest position holding v, counted from 0; -1 when there is none *)
RECURSIVE LastIndexFrom(_, _, _)
LastIndexFrom(s, v, i) ==
  IF i < 1 THEN -1
  ELSE IF s[i] = v THEN i - 1 ELSE LastIndexFrom(s, v, i - 1)

LastIndexOf(s, v) == LastIndexFrom(s, v, Len(s))

(* colSums.indexOf(v): the lowest position holding v, counted from 0;     *)
(* -1 when there is none                                                   *)
RECURSIVE IndexFrom(_, _, _)
IndexFrom(s, v, i) ==
  IF i > Len(s) THEN -1
  ELSE IF s[i] = v THEN i - 1 ELSE IndexFrom(s, v, i + 1)

IndexOf(s, v) == IndexFrom(s, v, 1)

(* left = closed.getRegion(new cv.Rect(0, 0, Math.floor(w / 2), h)) *)
LeftColSums(closed) == ColSums(GetRegion(closed, Cols(closed) \div 2))

MarginX(closed) == IndexOf(LeftColSums(closed), MathMax(LeftColSums(closed)))

(* colSums[marginX]; undefined when marginX is -1 *)
MarginSum(closed) ==
  IF MarginX(closed) >= 0
  THEN LeftColSums(closed)[MarginX(closed) + 1] ELSE NoVal

(* marginCropImages(files) is called *)
MarginStart ==
  /\ margin.pc = "idle"
  /\ margin' = [IdleMargin EXCEPT !.pc = "loop"]
  /\ UNCHANGED <<db, run, other, questions, reqs>>

(* a callback of files.forEach up to the closing: an unreadable file is   *)
(* skipped, of a readable one the closed image is at hand                  *)
DecodeFile(file, maxVal) ==
  /\ margin.pc = "loop"
  /\ margin.k < MaxFiles
  /\ IF file = << >>
     THEN margin' = [margin EXCEPT !.k = @ + 1]
     ELSE /\ maxVal \in MaxVals(file)
          /\ margin' = [margin EXCEPT !.pc = "crop", !.closed = file,
                                      !.maxVal = maxVal,
                                      !.divisor = Divisor(maxVal),
                                      !.marginX = NoVal, !.marginSum = NoVal]
  /\ UNCHANGED <<db, run, other, questions, reqs>>

(* the rest of the callback: column sums, marginX, marginSum and the crop; *)
(* img.getRegion(new cv.Rect(0, 0, marginX, h)) throws on a negative width *)
(* and ends the call, else the entry of the file is written to results     *)
(* (recorded counts the entries; the files of a call have different names) *)
CropFile ==
  /\ margin.pc = "crop"
  /\ IF MarginX(margin.closed) < 0
     THEN margin' = [margin EXCEPT !.pc = "thrown", !.closed = << >>,
                                   !.maxVal = NoVal, !.divisor = NoVal]
     ELSE margin' = [margin EXCEPT !.pc = "loop", !.k = @ + 1,
                                   !.closed = << >>,
                                   !.maxVal = NoVal, !.divisor = NoVal,
                                   !.marginX = MarginX(margin.closed),
                                   !.marginSum = MarginSum(margin.closed),
                                   !.recorded = @ + 1]
  /\ UNCHANGED <<db, run, other, questions, reqs>>

(* the files are exhausted: return results *)
ReturnResults ==
  /\ margin.pc = "loop"
  /\ margin' = [margin EXCEPT !.pc = "done"]
  /\ UNCHANGED <<db, run, other, questions, reqs>>

(* the caller has the results, or the error *)
MarginEnd ==
  /\ margin.pc \in {"done", "thrown"}
  /\ margin' = IdleMargin
  /\ UNCHANGED <<db, run, other, questions, reqs>>

MarginInit ==
  /\ questions = IssuedQuestions
  /\ db = [assignments |-> << >>]
  /\ run = IdleRun
  /\ other = IdleRun
  /\ margin = IdleMargin
  /\ reqs = IdleReqs

MarginNext ==
  \/ MarginStart
  \/ \E file \in Files : \E maxVal \in MaxVals(file) : DecodeFile(file, maxVal)
  \/ CropFile
  \/ ReturnResults
  \/ MarginEnd

MarginSpec == MarginInit /\ [][MarginNext]_vars

(* ------------------------------ claims -------------------------------- *)
Attempts == 1..Len(db.assignments)

(* the attempt a run is about, 0 when the student has none *)
RunAttempt ==
  IF run.sid = StudentId THEN FindIndex(db.assignments, run.aid) ELSE 0

InFlight ==
  {"upload", "find", "checkpoint", "region", "assignment", "grade", "final"}

(* question id of a response entry, in either shape *)
QuestionIdOf(r) == IF r.question_id # NoVal THEN r.question_id ELSE r.question

SpecTransitions ==
  {<<"pending", "processing">>, <<"processing", "graded">>,
   <<"processing", "failed">>, <<"failed", "processing">>}

C2_OnlySpecTransitions ==
  [][\A i \in Attempts :
       db'.assignments[i].status # db.assignments[i].status
         => <<db.assignments[i].status, db'.assignments[i].status>>
              \in SpecTransitions]_vars

(* C3: in a run the write of submissionDate has been persisted before any *)
(* network call of that run is attempted.                                  *)
C3_CheckpointBeforeNetwork == run.net > 0 => run.saved

(* C4: when the region extraction call of a run fails, at the end of the  *)
(* run submissionDate is set and status is failed.                         *)
C4_RegionFailureMarksFailed ==
  (run.pc = "thrown" /\ run.failed = "region")
    => /\ db.assignments[run.idx].submissionDate # NoVal
       /\ db.assignments[run.idx].status = "failed"

(* C5: a run that failed at a known stage (render, region extraction,     *)
(* grading) has persisted status failed when it ends.                      *)
C5_KnownFailurePersistsFailed ==
  (run.pc = "thrown" /\ run.failed \in {"render", "region", "grade"}
     /\ RunAttempt # 0)
    => db.assignments[RunAttempt].status = "failed"

(* C6: from the start of a run for an existing attempt until the run      *)
(* persists graded or failed, the attempt's status is processing.          *)
C6_ProcessingWhileRunning ==
  (run.pc \in InFlight /\ RunAttempt # 0)
    => db.assignments[RunAttempt].status = "processing"

(* C7: a run changes responses and status only together, in one write     *)
(* that stores the run's merged responses with status graded; no step of   *)
(* a run leaves graded with other responses or new responses ungraded.     *)
C7_GradedWithResponsesInOneWrite ==
  [][\A i \in Attempts :
       (/\ run.pc \in InFlight
        /\ run' # run
        /\ \/ db'.assignments[i].status # db.assignments[i].status
           \/ db'.assignments[i].responses # db.assignments[i].responses)
         => /\ db'.assignments[i].status = "graded"
            /\ db'.assignments[i].responses = run.combinedResponses]_vars

(* a run has just stored its non-empty merged responses as graded *)
C7_Witness ==
  /\ run.pc = "done"
  /\ Len(run.combinedResponses) > 0
  /\ db.assignments[run.idx].status = "graded"
  /\ db.assignments[run.idx].responses = run.combinedResponses

(* C8: an attempt whose status is graded has non-empty responses. *)
C8_GradedHasResponses ==
  \A i \in Attempts :
    db.assignments[i].status = "graded" => Len(db.assignments[i].responses) > 0

(* C9: the responses of one attempt have pairwise distinct question ids. *)
C9_UniqueQuestionIds ==
  \A i \in Attempts :
    \A j, k \in 1..Len(db.assignments[i].responses) :
      j # k => QuestionIdOf(db.assignments[i].responses[j])
                 # QuestionIdOf(db.assignments[i].responses[k])

(* C10: every entry of the merged responses carries an image url that the *)
(* region map gives for that entry's question id.                          *)
C10_MergeUsesRegionUrl ==
  [][(run.pc = "grade" /\ run'.pc = "final") =>
       \A k \in 1..Len(run'.combinedResponses) :
         \E j \in 1..Len(run.finalResponses) :
           /\ run.finalResponses[j].question_id
                = run'.combinedResponses[k].question_id
           /\ run.finalResponses[j].image_url
                = run'.combinedResponses[k].image_url]_vars

(* regions extracted for q1 then q2, graded in the other order, stored *)
C10_Witness ==
  /\ run.pc = "done"
  /\ Len(run.combinedResponses) = 2
  /\ run.combinedResponses[1].question_id = "q2"
  /\ run.combinedResponses[1].image_url = "u2"
  /\ run.combinedResponses[2].question_id = "q1"
  /\ run.combinedResponses[2].image_url = "u1"
  /\ db.assignments[run.idx].responses = run.combinedResponses

(* question ids of a list of entries that carry question_id *)
QuestionIds(list) == {list[k].question_id : k \in 1..Len(list)}

(* C11: the grading request of a run holds exactly the entries of the     *)
(* region map, in its order; every merged entry and every entry the run    *)
(* persists is for a question of the region map, so a question the region  *)
(* map lacks is neither sent nor stored.                                   *)
C11_OnlyRegionMapQuestions ==
  [][/\ run'.pc = "grade" =>
          /\ Len(run'.questionsToGrade) = Len(run'.finalResponses)
          /\ \A k \in 1..Len(run'.finalResponses) :
                /\ run'.questionsToGrade[k].question_id
                     = run'.finalResponses[k].question_id
                /\ run'.questionsToGrade[k].image_url
                     = run'.finalResponses[k].image_url
     /\ (run.pc = "grade" /\ run'.pc = "final") =>
          QuestionIds(run'.combinedResponses)
            \subseteq QuestionIds(run.finalResponses)
     /\ (run.pc = "final" /\ run'.pc = "done") =>
          QuestionIds(db'.assignments[run.idx].responses)
            \subseteq QuestionIds(run.combinedResponses)]_vars

(* a1 has q1 and q2, the region map only q1: the request holds q1 alone *)
C11_Witness ==
  /\ run.pc = "grade"
  /\ run.aid = "a1"
  /\ HasQuestion("a1", "q2")
  /\ QuestionIds(run.finalResponses) = {"q1"}
  /\ Len(run.questionsToGrade) = 1
  /\ run.questionsToGrade[1].question_id = "q1"
  /\ run.questionsToGrade[1].rubric = "r1"

(* C12: the merged responses of a run, which its final write stores, hold *)
(* exactly one entry for every question of the region map.                 *)
C12_OneEntryPerRegionQuestion ==
  [][(run.pc = "grade" /\ run'.pc = "final") =>
       /\ Len(run'.combinedResponses) = Len(run.finalResponses)
       /\ QuestionIds(run'.combinedResponses)
            = QuestionIds(run.finalResponses)]_vars

(* C13: a run that does not reach its final write leaves the responses of *)
(* every attempt as they are, whatever step it fails at; when it fails at  *)
(* the region extraction call or the grading call, the submissionDate of   *)
(* its attempt is set.                                                     *)
C13_FailedRunKeepsResponses ==
  [][(run.pc \in InFlight /\ run'.pc # run.pc /\ run'.pc # "done") =>
       /\ \A i \in Attempts :
            db'.assignments[i].responses = db.assignments[i].responses
       /\ (run'.pc = "thrown" /\ run'.failed \in {"region", "grade"})
            => db'.assignments[run'.idx].submissionDate # NoVal]_vars

(* the region extraction call of a run on the issued attempt timed out *)
C13_Witness ==
  /\ run.pc = "thrown"
  /\ run.failed = "region"
  /\ run.aid = "a1"
  /\ db.assignments[run.idx].submissionDate = Date
  /\ db.assignments[run.idx].responses = EmptyResponses("a1")
  /\ db.assignments[run.idx].status = "pending"

(* C14: what a successful run leaves in its attempt is determined by its *)
(* merged responses, a function of the two service answers, and not by     *)
(* what was stored before: graded with exactly those responses.  A second  *)
(* run with the same answers, writing over what the first one stored,      *)
(* leaves the attempt exactly as the first run left it.                    *)
C14_SecondRunSameResult ==
  [][(run.pc = "final" /\ run'.pc = "done") =>
       /\ db'.assignments[run.idx] =
            [assignment |-> run.aid, status |-> "graded",
             submissionDate |-> Date, responses |-> run.combinedResponses]
       /\ (/\ db.assignments[run.idx].status = "graded"
           /\ db.assignments[run.idx].responses = run.combinedResponses)
            => db'.assignments = db.assignments]_vars

(* a run on a graded attempt has merged the responses that are stored *)
C14_Witness ==
  /\ run.pc = "final"
  /\ run.saved
  /\ ~run.stale
  /\ Len(run.combinedResponses) = 2
  /\ db.assignments[run.idx].status = "graded"
  /\ db.assignments[run.idx].responses = run.combinedResponses

(* C15: a retry of an attempt starts a run of the pipeline for it, whose  *)
(* results then replace the responses.                                     *)
C15_RetryRerunsPipeline ==
  [][\A sid \in ReqStudents, aid \in ReqAssignments :
       RetryGrading(sid, aid) =>
         /\ run'.pc \in InFlight
         /\ run'.sid = sid
         /\ run'.aid = aid]_vars

(* C16: a run for a (student, assignment) pair that has no attempt ends   *)
(* not found without having made any call to a service (upload, cropping,  *)
(* grading) and without having written the student document.               *)
C16_NotFoundBeforeAnyCall ==
  (run.pc = "thrown" /\ run.failed = "notfound" /\ RunAttempt = 0)
    => (run.net = 0 /\ ~run.saved)

(* C17: no step clears a submissionDate that is set, whichever handler    *)
(* takes it (a run, startGrading, updateGrades, updateStudentAssignment,   *)
(* retryGrading, debugUpdateSolution, updateAssignment); and whenever a    *)
(* run is about to call the region extraction service, or is past that     *)
(* call, the submissionDate of its attempt is set.                         *)
C17_SubmissionDateKept ==
  [][/\ \A i \in Attempts :
          db.assignments[i].submissionDate # NoVal
            => db'.assignments[i].submissionDate # NoVal
     /\ run'.pc \in {"region", "assignment", "grade", "final"}
          => db'.assignments[run'.idx].submissionDate # NoVal]_vars

(* a run saved the submissionDate, then the assignment was edited while  *)
(* the run was waiting for a service: the responses are the empty ones of  *)
(* the new question, the date is still there                               *)
C17_Witness ==
  /\ run.pc = "grade"
  /\ run.saved
  /\ run.stale
  /\ run.aid = "a1"
  /\ questions["a1"] = NewQuestionIds
  /\ db.assignments[run.idx].submissionDate = Date
  /\ Len(db.assignments[run.idx].responses) = 1
  /\ db.assignments[run.idx].responses[1].question = "q7"

(* a step of the invocation that is executing, not a change of invocation *)
RunSaves == run.pc \in {"checkpoint", "final"} /\ run'.pc # run.pc /\ ~Switch

(* no run has written the responses of attempt i *)
Unwritten(i) ==
  db.assignments[i].responses = EmptyResponses(db.assignments[i].assignment)

(* C18: a run whose attempt no other run has written is not disturbed by  *)
(* the runs for other attempts: its saves are accepted as they are when it *)
(* executes alone (the store is available), and its final write leaves its *)
(* attempt graded with its own merged responses.                           *)
C18_RunsDoNotInterfere ==
  [][(RunSaves /\ Unwritten(run.idx)) =>
       /\ run'.pc # "thrown"
       /\ run.pc = "final" =>
            /\ db'.assignments[run.idx].status = "graded"
            /\ db'.assignments[run.idx].responses = run.combinedResponses]_vars

ColumnSum(img, x) == White * Cardinality({y \in 1..Rows(img) : img[y][x] = White})

(* C20: for every file whose entry is written, marginSum is the greatest  *)
(* pixel sum among the columns of the left half (the first floor(w/2)      *)
(* columns) of the closed image, and marginX is the lowest column index,   *)
(* counted from 0, whose sum is that greatest sum.                         *)
C20_MarginIsFirstMaximum ==
  [][(margin.pc = "crop" /\ margin'.pc = "loop") =>
       LET half == Cols(margin.closed) \div 2
       IN /\ margin'.marginX \in 0..(half - 1)
          /\ margin'.marginSum
               = ColumnSum(margin.closed, margin'.marginX + 1)
          /\ \A x \in 1..half :
               ColumnSum(margin.closed, x) <= margin'.marginSum
          /\ \A x \in 1..margin'.marginX :
               ColumnSum(margin.closed, x) < margin'.marginSum]_vars

(* the left half of a file's closed image has a black first column and a  *)
(* white second one: the entry written has marginX 1 and marginSum 255,    *)
(* after an entry for another file                                         *)
C20_Witness ==
  /\ margin.pc = "loop"
  /\ margin.recorded = 2
  /\ margin.marginX = 1
  /\ margin.marginSum = White

(* C21: a file whose image has no gradient (maxVal 0) is scaled with the   *)
(* divisor 1, and its entry is written as for any other file: marginX 0,   *)
(* marginSum 0, a crop of width 0, no error.                               *)
C21_BlankImageCropped ==
  [][(margin.pc = "crop" /\ margin.maxVal = 0) =>
       /\ margin.divisor = 1
       /\ margin'.pc = "loop"
       /\ margin'.recorded = margin.recorded + 1
       /\ margin'.marginX = 0
       /\ margin'.marginSum = 0]_vars

(* C25: a file that cannot be decoded is passed over without an error and  *)
(* without an entry, the files after it are taken up as before; every file *)
(* that is decoded gets its entry in the results.                          *)
C25_BadFileSkipped ==
  [][/\ \A maxVal \in 0..MaxMag :
          DecodeFile(<< >>, maxVal) =>
            /\ margin'.pc = "loop"
            /\ margin'.k = margin.k + 1
            /\ margin'.recorded = margin.recorded
     /\ margin.pc = "crop" =>
          /\ margin'.pc = "loop"
          /\ margin'.k = margin.k + 1
          /\ margin'.recorded = margin.recorded + 1]_vars

(* the greater of two numbers *)
Max(a, b) == IF a > b THEN a ELSE b

(* C26: for every decoded image, of any width from 1, the entry is written *)
(* with 0 <= marginX < max(1, floor(W/2)) and a number as marginSum.       *)
C26_MarginXInRange ==
  [][margin.pc = "crop" =>
       /\ margin'.pc = "loop"
       /\ margin'.marginX \in 0..(Max(1, Cols(margin.closed) \div 2) - 1)
       /\ margin'.marginSum \in Nat]_vars

(* position of a step of handlePdfUpload in its text *)
Stage(pc) ==
  CASE pc = "idle" -> 0 [] pc = "upload" -> 1 [] pc = "find" -> 2
    [] pc = "checkpoint" -> 3 [] pc = "region" -> 4 [] pc = "assignment" -> 5
    [] pc = "grade" -> 6 [] pc = "final" -> 7 [] OTHER -> 8

(* C22: a run only moves forward through its steps until it ends, and a    *)
(* call to a service is made only at that service's step, which the call   *)
(* leaves whether it succeeds or fails: the upload, the cropping request   *)
(* and the grading request are each made at most once in a run, and after  *)
(* a failure the run makes no call at all.                                 *)
C22_NoRetryInRun ==
  [][/\ run'.pc # run.pc =>
          \/ run.pc \in {"done", "thrown"} /\ run' = IdleRun
          \/ Stage(run'.pc) > Stage(run.pc)
     /\ run'.net # run.net =>
          \/ run' = IdleRun
          \/ /\ run'.net = run.net + 1
             /\ run.pc \in {"upload", "region", "grade"}
             /\ run'.pc # run.pc
     /\ run.pc = "thrown" => run'.net \in {run.net, 0}
     /\ run'.net <= 3]_vars

(* the cropping request of a run failed after the upload succeeded: two   *)
(* calls were made, and none follows                                       *)
C22_Witness ==
  /\ run.pc = "thrown"
  /\ run.failed = "region"
  /\ run.saved
  /\ run.net = 2

(* C23: a run goes on past the upload only with at least one rendered      *)
(* page; when the upload fails or reports no page the run ends there, and  *)
(* the cropping request is never sent with an empty list of page urls.     *)
C23_NoPagesStopsRun ==
  [][/\ (run.pc = "upload" /\ run'.pc # run.pc) =>
          \/ run'.pc = "thrown" /\ run'.failed = "render"
          \/ run'.pages > 0
     /\ (run.pc = "region" /\ run'.net = run.net + 1) => run.pages > 0]_vars

(* the ids of the questions of assignment a *)
QuestionSet(a) ==
  {AssignmentQuestions(a)[k] : k \in 1..Len(AssignmentQuestions(a))}

(* C24: every entry of the grading request a run builds is for a question  *)
(* of the run's assignment and carries that question's rubric, and every   *)
(* response entry the run stores is for a question of the assignment.      *)
C24_RequestWithinAssignment ==
  [][/\ (run.pc = "assignment" /\ run'.pc = "grade") =>
          \A k \in 1..Len(run'.questionsToGrade) :
            /\ run'.questionsToGrade[k].question_id \in QuestionSet(run.aid)
            /\ run'.questionsToGrade[k].rubric
                 = Rubric(run'.questionsToGrade[k].question_id)
     /\ (run.pc = "final" /\ run'.pc = "done") =>
          QuestionIds(db'.assignments[run.idx].responses)
            \subseteq QuestionSet(run.aid)]_vars

(* C27: when the grading service answers with a result for a question that *)
(* is not in the region map sent to it, the run ends with an error at the  *)
(* merge and writes nothing; as no step of a run before its final write    *)
(* touches status or responses, they are what they were without the run,   *)
(* and of the run's attempt only the submissionDate was written.           *)
C27_ForeignResultFailsRun ==
  [][/\ \A results \in ResultLists :
          (/\ GradeQuestions(TRUE, results)
           /\ ~(QuestionIds(results) \subseteq QuestionIds(run.finalResponses)))
            => /\ run'.pc = "thrown"
               /\ run'.failed = "merge"
               /\ run'.saved
               /\ db' = db
               /\ db.assignments[run.idx].submissionDate = Date
     /\ (run.pc \in InFlight /\ run'.pc # run.pc /\ run'.pc # "done") =>
          \A i \in Attempts :
            /\ db'.assignments[i].status = db.assignments[i].status
            /\ db'.assignments[i].responses = db.assignments[i].responses]_vars

(* a run on the issued attempt a1 ended at the merge: the attempt is still *)
(* pending with its empty responses, the submissionDate is set             *)
C27_Witness ==
  /\ run.pc = "thrown"
  /\ run.failed = "merge"
  /\ run.net = 3
  /\ db.assignments[run.idx].status = "pending"
  /\ db.assignments[run.idx].responses = EmptyResponses("a1")
  /\ db.assignments[run.idx].submissionDate = Date

(* C29: every response entry of an attempt is for a question of the        *)
(* current question list of the attempt's assignment, and updateAssignment *)
(* leaves the status and the submissionDate of every attempt as they are.  *)
C29_ResponsesWithinQuestions ==
  [][/\ \A i \in 1..Len(db'.assignments) :
          \A k \in 1..Len(db'.assignments[i].responses) :
            QuestionIdOf(db'.assignments[i].responses[k])
              \in {questions'[db'.assignments[i].assignment][j] :
                     j \in 1..Len(questions'[db'.assignments[i].assignment])}
     /\ \A aid \in ReqAssignments, q \in BOOLEAN :
          UpdateAssignment(aid, q) =>
            \A i \in Attempts :
              /\ db'.assignments[i].status = db.assignments[i].status
              /\ db'.assignments[i].submissionDate
                   = db.assignments[i].submissionDate]_vars

(* C30: updateGrades persists nothing for a status outside its list; when  *)
(* it succeeds, of the whole document only the status of its attempt and   *)
(* the solution of response entries may differ, the entries stay the same  *)
(* in number and order, and a solution changes only where an item of the   *)
(* request names the question of the entry.                                *)
C30_UpdateGradesOnlySolutions ==
  [][\A sid \in ReqStudents, aid \in HandlerAssignments,
        st \in ReqStatuses, items \in ReqItems :
       UpdateGrades(sid, aid, st, items) =>
         LET i == FindIndex(db.assignments, aid)
             old == db.assignments[i]
             new == db'.assignments[i]
         IN /\ st \in validStatuses \cup {NoVal}
            /\ Len(db'.assignments) = Len(db.assignments)
            /\ \A j \in Attempts :
                 j # i => db'.assignments[j] = db.assignments[j]
            /\ new.assignment = old.assignment
            /\ new.submissionDate = old.submissionDate
            /\ Len(new.responses) = Len(old.responses)
            /\ \A k \in 1..Len(old.responses) :
                 /\ new.responses[k]
                      = [old.responses[k] EXCEPT
                           !.solution = new.responses[k].solution]
                 /\ new.responses[k].solution # old.responses[k].solution
                      => \E m \in 1..Len(items) :
                           /\ items[m].questionId # NoVal
                           /\ items[m].questionId = old.responses[k].question]_vars

(* the attempt of a1 reported failed with a solution for q1: the entry of  *)
(* q2 is as it was issued                                                  *)
C30_Witness ==
  /\ run.pc = "idle"
  /\ Len(db.assignments) = 1
  /\ db.assignments[1].status = "failed"
  /\ db.assignments[1].submissionDate = NoVal
  /\ db.assignments[1].responses =
       [EmptyResponses("a1") EXCEPT ![1].solution = "x"]

(* C28: the assignments array of the student holds at most one entry for   *)
(* an assignment id, whatever the interleaving of createAssignment,        *)
(* startGrading and updateStudentAssignment.                               *)
C28_OneEntryPerAssignment ==
  \A i, j \in Attempts :
    i # j => db.assignments[i].assignment # db.assignments[j].assignment
====
